---- MODULE Spec2Model ----
(***************************************************************************)
(* A model of src/lib/index.js: the URI strategy of the identifier         *)
(* library (parseUri, parseUriReference, parseAbsoluteUri, normalizeUri,   *)
(* resolveUri, toRelativeUri) and the helpers they call.                   *)
(*                                                                         *)
(* A JavaScript string is a sequence of one-character strings.  The value  *)
(* undefined of an unmatched capture group is the one-element sequence     *)
(* <<"undefined">>, whose element is no character, and an exception thrown *)
(* by a parser is the result InvalidIdentifier.  Positions are 0-based, as *)
(* in the source.  The IRI strategy, which differs in its character        *)
(* classes only, is not modelled.                                          *)
(***************************************************************************)
EXTENDS Integers, Sequences, FiniteSets, TLC

VARIABLES
  pc,          \* the position of the call under way
  identifier,  \* the argument of normalizeUri
  reference,   \* the arguments of resolveUri
  base,
  uri,         \* the arguments of toRelativeUri
  relativeTo,
  arg,         \* the argument removeDotSegments was called with
  path,        \* the locals of removeDotSegments
  output,
  iterations,  \* the iterations its loop has made
  result,      \* what the first call returned
  result2      \* what the second call (on the first's result) returned

vars == <<pc, identifier, reference, base, uri, relativeTo, arg, path, output,
          iterations, result, result2>>

undefined == <<"undefined">>
InvalidIdentifier == <<"Error">>

-----------------------------------------------------------------------------
(* Characters                                                              *)

LowerSeq == <<"a","b","c","d","e","f","g","h","i","j","k","l","m",
              "n","o","p","q","r","s","t","u","v","w","x","y","z">>
UpperSeq == <<"A","B","C","D","E","F","G","H","I","J","K","L","M",
              "N","O","P","Q","R","S","T","U","V","W","X","Y","Z">>
DigitSeq == <<"0","1","2","3","4","5","6","7","8","9">>

Range(s) == {s[i] : i \in 1..Len(s)}

lower == Range(LowerSeq)
upper == Range(UpperSeq)
digit == Range(DigitSeq)
alpha == lower \cup upper

hexdig == digit \cup {"a","b","c","d","e","f"} \cup {"A","B","C","D","E","F"}
unreserved == alpha \cup digit \cup {"-", ".", "_", "~"}
subDelims == {"!", "$", "&", "'", "(", ")", "*", "+", ",", ";", "="}
schemeChars == alpha \cup digit \cup {"-", "+", "."}
regNameChars == unreserved \cup subDelims
userinfoChars == unreserved \cup subDelims \cup {":"}
pchar == unreserved \cup subDelims \cup {":", "@"}
queryChars == pchar \cup {"/", "?"}

\* The characters with codes 32..126, in code order (String.fromCharCode).
\* The double quote, the backslash and the backtick are named: they belong to
\* no class.
AsciiSeq == <<" ", "!", "DQUOTE", "#", "$", "%", "&", "'", "(", ")", "*", "+", ",", "-", ".", "/">>
            \o DigitSeq
            \o <<":", ";", "<", "=", ">", "?", "@">>
            \o UpperSeq
            \o <<"[", "BACKSLASH", "]", "^", "_", "BACKTICK">>
            \o LowerSeq
            \o <<"{", "|", "}", "~">>

IndexIn(c, s) == CHOOSE i \in 1..Len(s) : s[i] = c

toLowerCaseChar(c) == IF c \in upper THEN LowerSeq[IndexIn(c, UpperSeq)] ELSE c
toUpperCaseChar(c) == IF c \in lower THEN UpperSeq[IndexIn(c, LowerSeq)] ELSE c

toLowerCase(s) == [i \in 1..Len(s) |-> toLowerCaseChar(s[i])]
toUpperCase(s) == [i \in 1..Len(s) |-> toUpperCaseChar(s[i])]

\* parseInt(h, 16) of one hexadecimal digit
hexValue(c) ==
  IF c \in digit THEN IndexIn(c, DigitSeq) - 1
  ELSE 9 + IndexIn(toLowerCaseChar(c), LowerSeq)

-----------------------------------------------------------------------------
(* String.prototype methods                                                *)

slice(s, from) == SubSeq(s, from + 1, Len(s))
slice2(s, from, to) == SubSeq(s, from + 1, to)

indexOf(s, c, from) ==
  IF \E i \in from..(Len(s) - 1) : s[i + 1] = c
  THEN CHOOSE i \in from..(Len(s) - 1) :
         s[i + 1] = c /\ \A j \in from..(i - 1) : s[j + 1] # c
  ELSE -1

lastIndexOf(s, c) ==
  IF \E i \in 0..(Len(s) - 1) : s[i + 1] = c
  THEN CHOOSE i \in 0..(Len(s) - 1) :
         s[i + 1] = c /\ \A j \in (i + 1)..(Len(s) - 1) : s[j + 1] # c
  ELSE -1

startsWith(s, p) == Len(s) >= Len(p) /\ SubSeq(s, 1, Len(p)) = p

\* s.split("/"): the sequence of the pieces between the slashes
RECURSIVE split(_)
split(s) ==
  LET position == indexOf(s, "/", 0)
  IN  IF position = -1 THEN <<s>>
      ELSE <<slice2(s, 0, position)>> \o split(slice(s, position + 1))

\* segments.join("/")
RECURSIVE join(_)
join(segments) ==
  IF Len(segments) = 0 THEN <<>>
  ELSE IF Len(segments) = 1 THEN segments[1]
  ELSE segments[1] \o <<"/">> \o join(Tail(segments))

-----------------------------------------------------------------------------
(* Dot-segment removal (index.js 115-163)                                  *)

\* /^\.?\.\/|^\.\.?$/
isNoOpSegment(p) ==
  \/ startsWith(p, <<".", "/">>)
  \/ startsWith(p, <<".", ".", "/">>)
  \/ p = <<".">>
  \/ p = <<".", ".">>

\* /^\/\.(?:\/|$)/
isSlashDotSegment(p) ==
  \/ startsWith(p, <<"/", ".", "/">>)
  \/ p = <<"/", ".">>

\* /^\/\.\.(?:\/|$)/
isUpSegment(p) ==
  \/ startsWith(p, <<"/", ".", ".", "/">>)
  \/ p = <<"/", ".", ".">>

\* removeSegment with path.slice(position) for path.slice(position + 1)
removeSegmentKeepingSlash(p) ==
  LET position == indexOf(p, "/", 1)
  IN  IF position = -1 THEN <<>> ELSE <<"/">> \o slice(p, position)

removeSegment(p) ==
  LET position == indexOf(p, "/", 1)
  IN  IF position = -1 THEN <<>> ELSE <<"/">> \o slice(p, position + 1)

replaceSegmentWithSlash(p) ==
  LET position == indexOf(p, "/", 1)
  IN  IF position = -1 THEN <<"/">> ELSE <<"/">> \o slice(p, position + 1)

\* removeLastSegment with path.slice(0, position + 1) for path.slice(0, position)
removeLastSegmentKeepingSlash(p) ==
  LET position == lastIndexOf(p, "/")
  IN  IF position = -1 THEN p ELSE slice2(p, 0, position + 1)

removeLastSegment(p) ==
  LET position == lastIndexOf(p, "/")
  IN  IF position = -1 THEN p ELSE slice2(p, 0, position)

getSegment(p) ==
  LET position == indexOf(p, "/", 1)
  IN  IF position = -1 THEN p ELSE slice2(p, 0, position)

\* The branch an iteration of the loop of removeDotSegments takes
branch(p) ==
  IF isNoOpSegment(p) THEN "noOp"
  ELSE IF isSlashDotSegment(p) THEN "slashDot"
  ELSE IF isUpSegment(p) THEN "up"
  ELSE "segment"

\* One iteration of the loop on the locals (path, output)
loopBody(p, out) ==
  CASE branch(p) = "noOp" -> [path |-> removeSegment(p), output |-> out]
    [] branch(p) = "slashDot" -> [path |-> replaceSegmentWithSlash(p), output |-> out]
    [] branch(p) = "up" ->
         [path |-> replaceSegmentWithSlash(p), output |-> removeLastSegment(out)]
    [] branch(p) = "segment" ->
         [path |-> removeSegment(p), output |-> out \o getSegment(p)]

RECURSIVE removeDotSegmentsLoop(_, _)
removeDotSegmentsLoop(p, out) ==
  IF Len(p) > 0
  THEN LET next == loopBody(p, out) IN removeDotSegmentsLoop(next.path, next.output)
  ELSE out

removeDotSegments(p) == removeDotSegmentsLoop(p, <<>>)

-----------------------------------------------------------------------------
(* Percent-encoding normalization and composition (index.js 165-196)       *)

isAllowedUnescapedInPath(c) == c \in unreserved \cup subDelims \cup {":", "@"}
isAllowedUnescapedInQuery(c) == c \in unreserved \cup subDelims \cup {":", "@", "/", "?"}

\* String.fromCharCode(charCode) for the codes of AsciiSeq; every other code
\* (a control character, or one above 126) is a character of no class.
fromCharCode(charCode) ==
  IF charCode \in 32..126 THEN AsciiSeq[charCode - 31] ELSE "OTHER"

\* match is a triplet <<"%", h1, h2>>; isAllowed is "path" or "query"
percentEncodedToChar(isAllowed, match) ==
  LET charCode == 16 * hexValue(match[2]) + hexValue(match[3])
      char == fromCharCode(charCode)
      allowed == IF isAllowed = "path" THEN isAllowedUnescapedInPath(char)
                 ELSE isAllowedUnescapedInQuery(char)
  IN  IF allowed THEN <<char>> ELSE toUpperCase(match)

\* s.replaceAll(percentEncoded, percentEncodedToChar(isAllowed)): the matches of
\* /%[a-fA-F0-9][a-fA-F0-9]/g from left to right, the replacements not rescanned
RECURSIVE replaceAll(_, _)
replaceAll(s, isAllowed) ==
  IF Len(s) = 0 THEN <<>>
  ELSE IF Len(s) >= 3 /\ s[1] = "%" /\ s[2] \in hexdig /\ s[3] \in hexdig
       THEN percentEncodedToChar(isAllowed, slice2(s, 0, 3))
            \o replaceAll(slice(s, 3), isAllowed)
  ELSE <<s[1]>> \o replaceAll(slice(s, 1), isAllowed)

normalizePath(segment) == replaceAll(removeDotSegments(segment), "path")
normalizeQuery(query) == replaceAll(query, "query")
normalizeFragment(fragment) == replaceAll(fragment, "query")

composeIdentifier(components) ==
  toLowerCase(components.scheme) \o <<":">>
  \o (IF components.authority = undefined THEN <<>>
      ELSE <<"/", "/">> \o toLowerCase(components.authority))
  \o normalizePath(components.path)
  \o (IF components.query = undefined THEN <<>>
      ELSE <<"?">> \o normalizeQuery(components.query))
  \o (IF components.fragment = undefined THEN <<>>
      ELSE <<"#">> \o normalizeFragment(components.fragment))

-----------------------------------------------------------------------------
(* The grammar (index.js 25-57) and the parsers (index.js 216-235)         *)
(*                                                                         *)
(* The patterns are anchored at both ends and their parts are delimited by *)
(* characters that the part before cannot hold, so a match, when there is  *)
(* one, is unique: the scheme ends at the first ":", the fragment starts   *)
(* after the first "#", the query after the first "?" before it, and an    *)
(* authority ends at the first "/" after "//".  IP-literal hosts are not   *)
(* modelled: "[" and "]" match nothing.                                    *)

\* (?:class|%HEXDIG HEXDIG)* matching the whole of s
RECURSIVE matchesAll(_, _)
matchesAll(s, class) ==
  IF Len(s) = 0 THEN TRUE
  ELSE IF s[1] = "%"
       THEN /\ Len(s) >= 3
            /\ s[2] \in hexdig
            /\ s[3] \in hexdig
            /\ matchesAll(slice(s, 3), class)
  ELSE s[1] \in class /\ matchesAll(slice(s, 1), class)

\* [a-zA-Z][a-zA-Z0-9-+.]*
matchesScheme(s) ==
  /\ Len(s) >= 1
  /\ s[1] \in alpha
  /\ \A i \in 2..Len(s) : s[i] \in schemeChars

\* host(?::port)? with host a reg-name (an IPv4 address is one too)
matchesHostPort(s) ==
  LET colon == indexOf(s, ":", 0)
  IN  IF colon = -1 THEN matchesAll(s, regNameChars)
      ELSE /\ matchesAll(slice2(s, 0, colon), regNameChars)
           /\ \A i \in (colon + 2)..Len(s) : s[i] \in digit

\* (?:userinfo@)?host(?::port)?
matchesAuthority(s) ==
  LET at == indexOf(s, "@", 0)
  IN  IF at = -1 THEN matchesHostPort(s)
      ELSE /\ matchesAll(slice2(s, 0, at), userinfoChars)
           /\ matchesHostPort(slice(s, at + 1))

NoMatch == [matched |-> FALSE, scheme |-> undefined, authority |-> undefined,
            path |-> undefined, path2 |-> undefined, query |-> undefined,
            fragment |-> undefined]

\* //authority path, the authority ending at the first "/" after the "//"
\* (position slash of hier, -1 when there is none)
matchAuthorityPath(hier, slash, schemeGroup, queryGroup, fragmentGroup) ==
  LET authorityGroup == IF slash = -1 THEN slice(hier, 2) ELSE slice2(hier, 2, slash)
      pathGroup == IF slash = -1 THEN <<>> ELSE slice(hier, slash)
  IN  IF matchesAuthority(authorityGroup) /\ matchesAll(pathGroup, pchar \cup {"/"})
      THEN [matched |-> TRUE, scheme |-> schemeGroup, authority |-> authorityGroup,
            path |-> pathGroup, path2 |-> undefined, query |-> queryGroup,
            fragment |-> fragmentGroup]
      ELSE NoMatch

\* (?://authority path|pathWithoutAuthority): where hier starts with "//" and
\* the first alternative fails, the second fails too, at its (?!//)
matchHier(hier, schemeGroup, queryGroup, fragmentGroup) ==
  IF ~(queryGroup = undefined \/ matchesAll(queryGroup, queryChars)) THEN NoMatch
  ELSE IF ~(fragmentGroup = undefined \/ matchesAll(fragmentGroup, queryChars)) THEN NoMatch
  ELSE IF startsWith(hier, <<"/", "/">>)
       THEN matchAuthorityPath(hier, indexOf(hier, "/", 2), schemeGroup, queryGroup,
                               fragmentGroup)
  ELSE IF matchesAll(hier, pchar \cup {"/"})
       THEN [matched |-> TRUE, scheme |-> schemeGroup, authority |-> undefined,
             path |-> undefined, path2 |-> hier, query |-> queryGroup,
             fragment |-> fragmentGroup]
  ELSE NoMatch

\* (?:\?(?<query>...))? : the query starts after the first "?" (position mark)
matchQuery(beforeFragment, mark, schemeGroup, fragmentGroup) ==
  IF mark = -1 THEN matchHier(beforeFragment, schemeGroup, undefined, fragmentGroup)
  ELSE matchHier(slice2(beforeFragment, 0, mark), schemeGroup,
                 slice(beforeFragment, mark + 1), fragmentGroup)

\* (?:#(?<fragment>...))? : the fragment starts after the first "#" (position
\* hash); absolute-URI has no fragment part, and hash is -1 for it
matchFragment(s, hash, schemeGroup) ==
  IF hash = -1 THEN matchQuery(s, indexOf(s, "?", 0), schemeGroup, undefined)
  ELSE matchQuery(slice2(s, 0, hash), indexOf(slice2(s, 0, hash), "?", 0), schemeGroup,
                  slice(s, hash + 1))

\* (?://authority path|pathWithoutAuthority) query fragment $, or without the
\* fragment for absolute-URI; the groups it captures
matchHierPart(s, schemeGroup, withFragment) ==
  matchFragment(s, IF withFragment THEN indexOf(s, "#", 0) ELSE -1, schemeGroup)

\* ^scheme: with the scheme ending at the first ":" (position colon)
matchWithScheme(pattern, value, colon) ==
  IF colon # -1 /\ matchesScheme(slice2(value, 0, colon))
  THEN matchHierPart(slice(value, colon + 1), slice2(value, 0, colon),
                     pattern # "absoluteUri")
  ELSE NoMatch

\* ^(?:scheme:|) of URI-reference: the empty alternative is tried when the
\* match with a scheme fails
matchOrWithoutScheme(pattern, value, withScheme) ==
  IF withScheme.matched \/ pattern # "uriReference" THEN withScheme
  ELSE matchHierPart(value, undefined, TRUE)

\* The groups of pattern.exec(value), pattern one of "uri", "uriReference",
\* "absoluteUri"; matched is FALSE where exec returns null
exec(pattern, value) ==
  matchOrWithoutScheme(pattern, value,
                       matchWithScheme(pattern, value, indexOf(value, ":", 0)))

isMatch(pattern, value) == exec(pattern, value).matched

\* The end of createParser: groups.path = groups.path2 when there is no
\* authority, and path2 is deleted
mergePathGroups(groups) ==
  [scheme |-> groups.scheme,
   authority |-> groups.authority,
   path |-> IF groups.authority = undefined THEN groups.path2 ELSE groups.path,
   query |-> groups.query,
   fragment |-> groups.fragment]

\* createParser(pattern, type)(value), called where the match is not null
createParser(pattern, value) == mergePathGroups(exec(pattern, value))

parseUri(value) == createParser("uri", value)
parseUriReference(value) == createParser("uriReference", value)
parseAbsoluteUri(value) == createParser("absoluteUri", value)

isUri(value) == isMatch("uri", value)
isUriReference(value) == isMatch("uriReference", value)
isAbsoluteUri(value) == isMatch("absoluteUri", value)

-----------------------------------------------------------------------------
(* The API (index.js 81-113, 264-339)                                      *)

toAbsolute(ident) ==
  IF ~isUri(ident) THEN InvalidIdentifier
  ELSE composeIdentifier([parseUri(ident) EXCEPT !.fragment = undefined])

normalize(ident) ==
  IF ~isUri(ident) THEN InvalidIdentifier
  ELSE composeIdentifier(parseUri(ident))

normalizeUri(ident) == normalize(ident)

mergePaths(p, baseComponents) ==
  IF baseComponents.authority # undefined /\ baseComponents.authority # <<>>
     /\ baseComponents.path = <<>>
  THEN <<"/">> \o p
  ELSE LET position == lastIndexOf(baseComponents.path, "/")
       IN  IF position = -1 THEN p
           ELSE slice2(baseComponents.path, 0, position + 1) \o p

\* resolveReference once the reference has no scheme and the base is parsed:
\* what resolvedComponents inherits from baseComponents
inherit(r, baseComponents) ==
  IF r.authority # undefined THEN [r EXCEPT !.scheme = baseComponents.scheme]
  ELSE IF r.path = <<>>
       THEN [r EXCEPT !.scheme = baseComponents.scheme,
                      !.authority = baseComponents.authority,
                      !.path = baseComponents.path,
                      !.query = IF r.query = undefined THEN baseComponents.query
                                ELSE r.query]
  ELSE IF ~startsWith(r.path, <<"/">>)
       THEN [r EXCEPT !.scheme = baseComponents.scheme,
                      !.authority = baseComponents.authority,
                      !.path = mergePaths(r.path, baseComponents)]
  ELSE [r EXCEPT !.scheme = baseComponents.scheme,
                 !.authority = baseComponents.authority]

\* resolveReference once the reference is parsed: the base is parsed only when
\* the reference has no scheme
resolveParsed(r, b) ==
  IF r.scheme # undefined THEN composeIdentifier(r)
  ELSE IF ~isAbsoluteUri(b) THEN InvalidIdentifier
  ELSE composeIdentifier(inherit(r, parseAbsoluteUri(b)))

resolveReference(ref, b) ==
  IF ~isUriReference(ref) THEN InvalidIdentifier
  ELSE resolveParsed(parseUriReference(ref), b)

resolveUri(ref, b) == resolveReference(ref, b)

\* The position the while loop of toRelative ends at
RECURSIVE commonPrefix(_, _, _)
commonPrefix(fromSegments, toSegments, position) ==
  IF /\ fromSegments[position + 1] = toSegments[position + 1]
     /\ position < Len(fromSegments) - 1
     /\ position < Len(toSegments) - 1
  THEN commonPrefix(fromSegments, toSegments, position + 1)
  ELSE position

\* The segments toRelative joins: a ".." for every segment of the base after
\* position but its last, then the target's segments from position on
diffSegments(fromSegments, toSegments, position) ==
  [index \in 1..(Len(fromSegments) - position - 1) |-> <<".", ".">>]
  \o SubSeq(toSegments, position + 1, Len(toSegments))

diffSegmentsJoined(fromSegments, toSegments) ==
  join(diffSegments(fromSegments, toSegments, commonPrefix(fromSegments, toSegments, 0)))

relativePath(fromPath, toPath) ==
  IF fromPath = toPath THEN <<>>
  ELSE diffSegmentsJoined(split(fromPath), split(toPath))

\* relativize without the comparison of the authorities
relativizeComparingSchemeOnly(fromUri, toUri, to) ==
  IF toUri.scheme # fromUri.scheme THEN to
  ELSE relativePath(fromUri.path, toUri.path)
       \o (IF toUri.query # undefined THEN <<"?">> \o toUri.query ELSE <<>>)
       \o (IF toUri.fragment # undefined THEN <<"#">> \o toUri.fragment ELSE <<>>)

\* toRelative once both identifiers are parsed
relativize(fromUri, toUri, to) ==
  IF toUri.scheme # fromUri.scheme THEN to
  ELSE IF toUri.authority # fromUri.authority THEN to
  ELSE relativePath(fromUri.path, toUri.path)
       \o (IF toUri.query # undefined THEN <<"?">> \o toUri.query ELSE <<>>)
       \o (IF toUri.fragment # undefined THEN <<"#">> \o toUri.fragment ELSE <<>>)

toRelative(u, to) ==
  IF ~isAbsoluteUri(u) \/ ~isUri(to) THEN InvalidIdentifier
  ELSE relativize(parseAbsoluteUri(u), parseUri(to), to)

toRelativeUri(u, to) == toRelative(u, to)

-----------------------------------------------------------------------------
(* Bounds and input sets                                                   *)

MaxPathLen == 6

Empty == <<>>

\* Every string of at most n characters of chars
StringsUpTo(chars, n) == UNION {[1..k -> chars] : k \in 0..n}

DotPathChars == {"/", ".", "a"}

\* Every concatenation of at most n of the atoms
RECURSIVE WordsUpTo(_, _)
WordsUpTo(atoms, n) ==
  IF n = 0 THEN {<<>>}
  ELSE LET shorter == WordsUpTo(atoms, n - 1)
       IN  shorter \cup {w \o a : w \in shorter, a \in atoms}

MaxPathAtoms == 4

\* The identifiers normalizeUri is called with: a scheme, no authority or an
\* empty or a non-empty one, a path of segments, dots and percent-encoded
\* triplets, and a query or a fragment; "#%2" makes the identifier invalid.
NormAuthorities == {<<>>, <<"/", "/">>, <<"/", "/", "B">>}
NormPathAtoms == {<<"/">>, <<".">>, <<"b">>, <<"%", "2", "e">>, <<"%", "2", "f">>,
                  <<"%", "3", "A">>}
NormTails == {<<>>, <<"?", "%", "2", "f">>, <<"#", "%", "7", "e">>, <<"#", "%", "2">>}
NormIdentifiers ==
  {<<"H", ":">> \o a \o p \o t :
     a \in NormAuthorities, p \in WordsUpTo(NormPathAtoms, MaxPathAtoms), t \in NormTails}

MaxUp == 4
MaxDepth == 3

\* n times "../"
RECURSIVE ups(_)
ups(n) == IF n = 0 THEN <<>> ELSE <<".", ".", "/">> \o ups(n - 1)

\* The directories "/b", "/c", ... of a base path, n of them
RECURSIVE directories(_)
directories(n) ==
  IF n = 0 THEN <<>> ELSE directories(n - 1) \o <<"/", LowerSeq[n + 1]>>

\* The references resolveUri is called with: a number of "../", then a
\* relative or absolute path, a query, a fragment, an authority or a scheme;
\* "#%2" makes the reference invalid.
ResolveTails ==
  {<<"g">>, <<".", "/", "g">>, <<>>, <<"?", "y">>, <<"#", "s">>, <<"/", "g">>,
   <<"/", "/", "h", "/", "g">>, <<"x", ":", "y">>, <<"g", "/", "h">>, <<"#", "%", "2">>}
ResolveReferences == {ups(n) \o t : n \in 0..MaxUp, t \in ResolveTails}

\* The bases: with or without a scheme, with no authority or an empty or a
\* non-empty one, a path of directories and a last segment (or the rootless
\* path "b"), and no query, a query or a fragment.
BaseSchemes == {<<"h", "t", "t", "p", ":">>, <<>>}
BaseAuthorities == {<<>>, <<"/", "/">>, <<"/", "/", "a">>}
BasePaths ==
  {directories(n) \o l : n \in 0..MaxDepth, l \in {<<>>, <<"/">>, <<"/", "d", ";", "p">>}}
  \cup {<<"b">>}
BaseTails == {<<>>, <<"?", "q">>, <<"#", "f">>}
ResolveBases ==
  {s \o a \o p \o t : s \in BaseSchemes, a \in BaseAuthorities, p \in BasePaths,
                      t \in BaseTails}

MaxUriAtoms == 2
MaxTargetAtoms == 2

\* The arguments of toRelativeUri: the base uri, and the target, whose scheme,
\* authority, path, query and fragment each may or may not be the base's;
\* "#f" on the base makes it no absolute-URI.
UriPathAtoms == {<<"/">>, <<"b">>}
TargetPathAtoms == {<<"/">>, <<"b">>, <<":">>}
RelativeUris ==
  {<<"h", "t", "t", "p", ":">> \o a \o p \o t :
     a \in {<<>>, <<"/", "/", "a">>},
     p \in WordsUpTo(UriPathAtoms, MaxUriAtoms),
     t \in {<<>>, <<"?", "x">>, <<"#", "f">>}}
RelativeTargets ==
  {s \o a \o p \o t :
     s \in {<<"h", "t", "t", "p", ":">>, <<"H", "T", "T", "P", ":">>, <<"f", "t", "p", ":">>},
     a \in {<<>>, <<"/", "/", "a">>, <<"/", "/", "A">>},
     p \in WordsUpTo(TargetPathAtoms, MaxTargetAtoms),
     t \in {<<>>, <<"?", "%", "2", "f">>, <<"#", "f">>}}

-----------------------------------------------------------------------------
(* SpecDot: removeDotSegments, one loop iteration per step                 *)

Idle == /\ identifier = Empty /\ reference = Empty /\ base = Empty
        /\ uri = Empty /\ relativeTo = Empty

InitDot ==
  /\ pc = "loop"
  /\ Idle
  /\ arg \in StringsUpTo(DotPathChars, MaxPathLen)
  /\ path = arg
  /\ output = Empty
  /\ iterations = 0
  /\ result = Empty
  /\ result2 = Empty

\* What every iteration leaves alone, and the count of iterations
Iteration ==
  /\ pc = "loop"
  /\ Len(path) > 0
  /\ iterations' = iterations + 1
  /\ UNCHANGED <<pc, identifier, reference, base, uri, relativeTo, arg, result, result2>>

NoOpSegment ==
  /\ Iteration
  /\ isNoOpSegment(path)
  /\ path' = removeSegment(path)
  /\ UNCHANGED output

SlashDotSegment ==
  /\ Iteration
  /\ ~isNoOpSegment(path)
  /\ isSlashDotSegment(path)
  /\ path' = replaceSegmentWithSlash(path)
  /\ UNCHANGED output

UpSegment ==
  /\ Iteration
  /\ ~isNoOpSegment(path)
  /\ ~isSlashDotSegment(path)
  /\ isUpSegment(path)
  /\ path' = replaceSegmentWithSlash(path)
  /\ output' = removeLastSegment(output)

MoveSegment ==
  /\ Iteration
  /\ ~isNoOpSegment(path)
  /\ ~isSlashDotSegment(path)
  /\ ~isUpSegment(path)
  /\ path' = removeSegment(path)
  /\ output' = output \o getSegment(path)

ReturnOutput ==
  /\ pc = "loop"
  /\ Len(path) = 0
  /\ result' = output
  /\ pc' = "done"
  /\ UNCHANGED <<identifier, reference, base, uri, relativeTo, arg, path, output,
                 iterations, result2>>

NextDot == NoOpSegment \/ SlashDotSegment \/ UpSegment \/ MoveSegment \/ ReturnOutput

SpecDot == InitDot /\ [][NextDot]_vars

-----------------------------------------------------------------------------
(* SpecNorm: normalizeUri, then normalizeUri of what it returned           *)

InitNorm ==
  /\ pc = "start"
  /\ identifier \in NormIdentifiers
  /\ reference = Empty /\ base = Empty /\ uri = Empty /\ relativeTo = Empty
  /\ arg = Empty /\ path = Empty /\ output = Empty /\ iterations = 0
  /\ result = Empty
  /\ result2 = Empty

Normalize ==
  /\ pc = "start"
  /\ result' = normalizeUri(identifier)
  /\ pc' = "once"
  /\ UNCHANGED <<identifier, reference, base, uri, relativeTo, arg, path, output,
                 iterations, result2>>

NormalizeAgain ==
  /\ pc = "once"
  /\ result # InvalidIdentifier
  /\ result2' = normalizeUri(result)
  /\ pc' = "twice"
  /\ UNCHANGED <<identifier, reference, base, uri, relativeTo, arg, path, output,
                 iterations, result>>

NextNorm == Normalize \/ NormalizeAgain

SpecNorm == InitNorm /\ [][NextNorm]_vars

-----------------------------------------------------------------------------
(* SpecResolve: resolveUri                                                 *)

InitResolve ==
  /\ pc = "start"
  /\ reference \in ResolveReferences
  /\ base \in ResolveBases
  /\ identifier = Empty /\ uri = Empty /\ relativeTo = Empty
  /\ arg = Empty /\ path = Empty /\ output = Empty /\ iterations = 0
  /\ result = Empty
  /\ result2 = Empty

Resolve ==
  /\ pc = "start"
  /\ result' = resolveUri(reference, base)
  /\ pc' = "done"
  /\ UNCHANGED <<identifier, reference, base, uri, relativeTo, arg, path, output,
                 iterations, result2>>

NextResolve == Resolve

SpecResolve == InitResolve /\ [][NextResolve]_vars

-----------------------------------------------------------------------------
(* SpecRelative: toRelativeUri, then resolveUri of what it returned        *)
(* against the same uri                                                    *)

InitRelative ==
  /\ pc = "start"
  /\ uri \in RelativeUris
  /\ relativeTo \in RelativeTargets
  /\ identifier = Empty /\ reference = Empty /\ base = Empty
  /\ arg = Empty /\ path = Empty /\ output = Empty /\ iterations = 0
  /\ result = Empty
  /\ result2 = Empty

Relativize ==
  /\ pc = "start"
  /\ result' = toRelativeUri(uri, relativeTo)
  /\ pc' = "relative"
  /\ UNCHANGED <<identifier, reference, base, uri, relativeTo, arg, path, output,
                 iterations, result2>>

ResolveBack ==
  /\ pc = "relative"
  /\ result # InvalidIdentifier
  /\ reference' = result
  /\ base' = uri
  /\ result2' = resolveUri(result, uri)
  /\ pc' = "resolved"
  /\ UNCHANGED <<identifier, uri, relativeTo, arg, path, output, iterations, result>>

NextRelative == Relativize \/ ResolveBack

SpecRelative == InitRelative /\ [][NextRelative]_vars

-----------------------------------------------------------------------------
(* Claims about removeDotSegments, checked under SpecDot                   *)

\* The algorithm of spec 4.3, as C6 states it: step 1 drops a leading "../" or
\* "./", step 2 replaces "/./" or "/." by "/", step 3 replaces "/../" or "/.." by
\* "/" and removes the last output segment (clearing the output when it has no
\* "/"), step 4 clears "." or "..", step 5 moves the first segment to the output.
RECURSIVE fiveSteps(_, _)
fiveSteps(in, out) ==
  IF Len(in) = 0 THEN out
  ELSE IF startsWith(in, <<".", ".", "/">>) THEN fiveSteps(slice(in, 3), out)
  ELSE IF startsWith(in, <<".", "/">>) THEN fiveSteps(slice(in, 2), out)
  ELSE IF startsWith(in, <<"/", ".", "/">>) THEN fiveSteps(slice(in, 2), out)
  ELSE IF in = <<"/", ".">> THEN fiveSteps(<<"/">>, out)
  ELSE IF startsWith(in, <<"/", ".", ".", "/">>) \/ in = <<"/", ".", ".">>
       THEN fiveSteps(IF Len(in) = 3 THEN <<"/">> ELSE slice(in, 3),
                      IF lastIndexOf(out, "/") = -1 THEN <<>>
                      ELSE slice2(out, 0, lastIndexOf(out, "/")))
  ELSE IF in = <<".">> \/ in = <<".", ".">> THEN fiveSteps(<<>>, out)
  ELSE LET position == indexOf(in, "/", 1)
       IN  IF position = -1 THEN fiveSteps(<<>>, out \o in)
           ELSE fiveSteps(slice(in, position), out \o slice2(in, 0, position))

\* C6: removeDotSegments returns, for every path, the output of the five-step
\* algorithm of spec 4.3.
C6_MatchesFiveSteps == pc = "done" => result = fiveSteps(arg, <<>>)

\* C10: every iteration of the loop of removeDotSegments leaves the remaining
\* input strictly shorter, so the loop has made at most length(path) iterations
\* when it ends, and it ends with the input empty.
C10_LoopShrinksInput ==
  /\ [](iterations + Len(path) <= Len(arg))
  /\ [](pc = "done" => Len(path) = 0)
  /\ [][pc = "loop" /\ pc' = "loop" => Len(path') < Len(path)]_vars

\* C10's case: a call that has returned after as many iterations as its path is
\* long, having taken the "up" branch on the way (the output lost a segment).
C10_Witness ==
  /\ pc = "done"
  /\ iterations >= 3
  /\ Len(result) < iterations
  /\ \E i \in 1..(Len(arg) - 2) : SubSeq(arg, i, i + 2) = <<"/", ".", ".">>

-----------------------------------------------------------------------------
(* Claims about normalizeUri, checked under SpecNorm                       *)

\* C1: normalizeUri is idempotent: for every identifier parseUri accepts,
\* normalizing the normalized identifier succeeds and changes nothing.
C1_Idempotent ==
  pc = "twice" => result2 # InvalidIdentifier /\ result2 = result

\* The normalization C7 states: a triplet is decoded exactly when its character
\* is unreserved, and is uppercased otherwise.
RECURSIVE decodeUnreservedOnly(_)
decodeUnreservedOnly(s) ==
  IF Len(s) = 0 THEN <<>>
  ELSE IF s[1] = "%"
       THEN LET char == fromCharCode(16 * hexValue(s[2]) + hexValue(s[3]))
            IN  (IF char \in unreserved THEN <<char>> ELSE toUpperCase(slice2(s, 0, 3)))
                \o decodeUnreservedOnly(slice(s, 3))
  ELSE <<s[1]>> \o decodeUnreservedOnly(slice(s, 1))

\* C7: in the identifier normalizeUri returns, every triplet of the path, the
\* query and the fragment is decoded if and only if its character is
\* unreserved, and every other triplet stays encoded, in uppercase.
C7_DecodesOnlyUnreserved ==
  pc = "once" /\ result # InvalidIdentifier =>
    LET c == parseUri(identifier)
    IN  result =
          toLowerCase(c.scheme) \o <<":">>
          \o (IF c.authority = undefined THEN <<>>
              ELSE <<"/", "/">> \o toLowerCase(c.authority))
          \o decodeUnreservedOnly(removeDotSegments(c.path))
          \o (IF c.query = undefined THEN <<>> ELSE <<"?">> \o decodeUnreservedOnly(c.query))
          \o (IF c.fragment = undefined THEN <<>>
              ELSE <<"#">> \o decodeUnreservedOnly(c.fragment))

\* C9: normalization preserves the authority: the normalized identifier parses,
\* and its authority is the lowercased authority of the identifier, absent when
\* the identifier has none.
C9_AuthorityPreserved ==
  pc = "once" /\ result # InvalidIdentifier =>
    /\ isUri(result)
    /\ parseUri(result).authority =
         IF parseUri(identifier).authority = undefined THEN undefined
         ELSE toLowerCase(parseUri(identifier).authority)

-----------------------------------------------------------------------------
(* Claims about resolveUri, checked under SpecResolve                      *)

\* C3: resolveUri fails with the invalid-identifier error whenever the base
\* does not satisfy the Absolute production, for every valid reference, the
\* references that carry a scheme included.
C3_NonAbsoluteBaseFails ==
  pc = "done" /\ isUriReference(reference) /\ ~isAbsoluteUri(base) =>
    result = InvalidIdentifier

RfcBase == <<"h", "t", "t", "p", ":", "/", "/", "a", "/", "b", "/", "c", "/", "d", ";", "p",
             "?", "q">>

\* The number of "../" a reference starts with
RECURSIVE leadingUps(_)
leadingUps(ref) ==
  IF startsWith(ref, <<".", ".", "/">>) THEN 1 + leadingUps(slice(ref, 3)) ELSE 0

\* A relative path of lowercase segments: no dot, no triplet, no delimiter
isPlainPath(p) ==
  /\ Len(p) > 0
  /\ p[1] # "/"
  /\ \A i \in 1..Len(p) : p[i] \in lower \cup {"/"}

\* The directories of a base path: its slashes but the first
depth(p) == IF Cardinality({i \in 1..Len(p) : p[i] = "/"}) = 0 THEN 0
            ELSE Cardinality({i \in 1..Len(p) : p[i] = "/"}) - 1

\* The rows of the table of C4, for the base RfcBase
C4_Table ==
  base = RfcBase =>
    /\ reference = <<"g">> =>
         result = <<"h", "t", "t", "p", ":", "/", "/", "a", "/", "b", "/", "c", "/", "g">>
    /\ reference = <<".", "/", "g">> =>
         result = <<"h", "t", "t", "p", ":", "/", "/", "a", "/", "b", "/", "c", "/", "g">>
    /\ reference = <<".", ".", "/", "g">> =>
         result = <<"h", "t", "t", "p", ":", "/", "/", "a", "/", "b", "/", "g">>
    /\ reference = <<".", ".", "/", ".", ".", "/", ".", ".", "/", "g">> =>
         result = <<"h", "t", "t", "p", ":", "/", "/", "a", "/", "g">>
    /\ reference = <<"?", "y">> =>
         result = <<"h", "t", "t", "p", ":", "/", "/", "a", "/", "b", "/", "c", "/", "d", ";",
                    "p", "?", "y">>
    /\ reference = <<"#", "s">> =>
         result = RfcBase \o <<"#", "s">>

\* The rule of C4: from a base with an authority, a reference of at least one
\* "../", and at least as many as the base path has directories, followed by a
\* plain path resolves to that path under the root "/".
C4_NeverAboveRoot ==
  /\ isAbsoluteUri(base)
  /\ parseAbsoluteUri(base).authority # undefined
  /\ leadingUps(reference) >= 1
  /\ leadingUps(reference) >= depth(parseAbsoluteUri(base).path)
  /\ isPlainPath(slice(reference, 3 * leadingUps(reference)))
  => result = toLowerCase(parseAbsoluteUri(base).scheme) \o <<":", "/", "/">>
              \o toLowerCase(parseAbsoluteUri(base).authority) \o <<"/">>
              \o slice(reference, 3 * leadingUps(reference))

\* C4: with the base "http://a/b/c/d;p?q", resolveUri returns the six rows of
\* the table, and from any base with an authority the "../" of a reference
\* beyond the depth of the base path never ascend past the root "/".
C4_RfcExamples == pc = "done" => C4_Table /\ C4_NeverAboveRoot

\* C4's case: "../../../g" resolved against the base of the table, which has
\* only two directories.
C4_Witness ==
  /\ pc = "done"
  /\ base = RfcBase
  /\ reference = <<".", ".", "/", ".", ".", "/", ".", ".", "/", "g">>
  /\ leadingUps(reference) > depth(parseAbsoluteUri(base).path)
  /\ result = <<"h", "t", "t", "p", ":", "/", "/", "a", "/", "g">>

\* The merge C8 states: "/" + path where the base has an authority, empty or
\* not, and an empty path; else the base path up to its last "/", then path.
mergeAsStated(p, baseComponents) ==
  IF baseComponents.authority # undefined /\ baseComponents.path = <<>>
  THEN <<"/">> \o p
  ELSE slice2(baseComponents.path, 0, lastIndexOf(baseComponents.path, "/") + 1) \o p

\* C8: for a reference with no scheme, no authority and a non-empty path not
\* starting with "/", resolveUri composes the base's scheme and authority, the
\* merge of the two paths as C8 states it, and the reference's query and
\* fragment.
C8_MergeAsStated ==
  /\ pc = "done"
  /\ isUriReference(reference)
  /\ isAbsoluteUri(base)
  /\ parseUriReference(reference).scheme = undefined
  /\ parseUriReference(reference).authority = undefined
  /\ parseUriReference(reference).path # <<>>
  /\ ~startsWith(parseUriReference(reference).path, <<"/">>)
  => result = composeIdentifier(
                [parseUriReference(reference) EXCEPT
                   !.scheme = parseAbsoluteUri(base).scheme,
                   !.authority = parseAbsoluteUri(base).authority,
                   !.path = mergeAsStated(parseUriReference(reference).path,
                                          parseAbsoluteUri(base))])

-----------------------------------------------------------------------------
(* Claims about toRelativeUri, checked under SpecRelative                  *)

\* C2: for an absolute uri and a target of the same scheme and authority,
\* resolving toRelativeUri(uri, relativeTo) against uri gives relativeTo back,
\* up to normalization.
C2_RoundTrip ==
  /\ pc = "resolved"
  /\ parseUri(relativeTo).scheme = parseAbsoluteUri(uri).scheme
  /\ parseUri(relativeTo).authority = parseAbsoluteUri(uri).authority
  => result2 = normalizeUri(relativeTo)

\* C5: where the target's scheme or authority is not the uri's, toRelativeUri
\* does not fail and returns the target as it was given.
C5_MismatchReturnsTarget ==
  /\ pc # "start"
  /\ isAbsoluteUri(uri)
  /\ isUri(relativeTo)
  /\ \/ parseUri(relativeTo).scheme # parseAbsoluteUri(uri).scheme
     \/ parseUri(relativeTo).authority # parseAbsoluteUri(uri).authority
  => result # InvalidIdentifier /\ result = relativeTo

\* C5's case: a target of the uri's scheme and of another authority, which
\* normalization would change, returned as it was.
C5_Witness ==
  /\ pc = "relative"
  /\ isAbsoluteUri(uri)
  /\ isUri(relativeTo)
  /\ parseUri(relativeTo).scheme = parseAbsoluteUri(uri).scheme
  /\ parseUri(relativeTo).authority # parseAbsoluteUri(uri).authority
  /\ parseUri(relativeTo).authority # undefined
  /\ normalizeUri(relativeTo) # relativeTo
  /\ result = relativeTo

====
